---------------------------- MODULE Spec2Model ----------------------------
(***************************************************************************)
(* Model of the browser application embedded in src/app.py: the video     *)
(* relevance search (searchByTopics), the transcript window               *)
(* (handleGetVideoContent), the tool handlers and the video element they   *)
(* drive.                                                                  *)
(*                                                                         *)
(* A JavaScript string is modelled as a sequence of one-character strings, *)
(* so that includes / split / startsWith / toLowerCase are computed.       *)
(***************************************************************************)
EXTENDS Integers, Sequences, FiniteSets, TLC

VARIABLES
    VIDEOS_DATA,      \* the catalog handed to the page (app.py:456)
    currentVideoId,   \* app.py:464
    videoSrc,         \* videoEl.src, "" until a video is shown
    currentTime,      \* videoEl.currentTime
    readyState,       \* of videoEl: "nothing", "loading" or "loaded"
    onLoad,           \* timestamps of the registered 'loadedmetadata' listeners
    lastCommand,      \* what the last handler told the player: "none", "show", "seek"
    pc,               \* where startConversation stands: "idle" or the await it is at
    peerConnection,   \* app.py:459: "null", "new" or "stable" (answer applied)
    dataChannel,      \* app.py:460: "null" or the readyState of the channel
    mediaStream,      \* app.py:462: "null" or "live"
    audioElement,     \* app.py:461: "null" or "created"
    isConnected,      \* app.py:463
    startDisabled,    \* startBtn.disabled
    stopDisabled,     \* stopBtn.disabled
    greetingTimers,   \* pending setTimeout(triggerAIGreeting, 500) callbacks
    leaked,           \* peer connections and streams overwritten while open
    starts,           \* clicks on Start so far
    outbox,           \* the items sent on the data channel, in order
    callCount,        \* tool invocations dispatched so far
    lastCall,         \* the last tool invocation: [name, args, call_id]
    results,          \* the value searchByTopics returned last
    lastResult,       \* the last object handed to sendFunctionResult
    video_list,       \* generate_data.py: the listing main works through
    video_index,      \* generate_data.py: the i of main's loop, 0 before it
    processed_videos, \* generate_data.py:475
    outcomes,         \* how the processing of each listed video ended
    videos_json,      \* the "videos" of the file save_videos_json wrote
    ingestPc,         \* where main stands: "idle", "loop", "done", "crashed"
    loaded            \* what load_videos_data was given and returned

player == <<currentVideoId, videoSrc, currentTime, readyState, onLoad,
            lastCommand>>

session == <<pc, peerConnection, dataChannel, mediaStream, audioElement,
             isConnected, startDisabled, stopDisabled, greetingTimers,
             leaked, starts>>

calls == <<outbox, callCount, lastCall, results, lastResult>>

offline == <<video_list, video_index, processed_videos, outcomes,
             videos_json, ingestPc, loaded>>

vars == <<VIDEOS_DATA, player, session, calls, offline>>

Null == "null"

-----------------------------------------------------------------------------
(* Bounds of the model *)

MaxVideos == 3      \* videos in a catalog of SpecSearch
MaxQueryLen == 3    \* characters of an enumerated query
MaxSegs == 2        \* segments of a transcript of SpecWindow
MaxTick == 4        \* segment boundaries are 0, 10, ..., 10 * MaxTick seconds
MaxTsTick == 6      \* timestamps are 0, 5, ..., 5 * MaxTsTick seconds
MaxCalls == 3       \* tool invocations in one run of Spec
MaxSessionCalls == 1  \* tool invocations in one run of SpecSession
MaxStarts == 2      \* clicks on Start in one run
MaxSparseVideos == 2  \* videos in a catalog of SpecVariants
MaxVariantLen == 3  \* characters of an enumerated query of SpecVariants
MaxSeconds == 3700  \* formatTime is applied to 0, 1, ..., MaxSeconds
MaxObjects == 3     \* objects in the bucket of SpecIngest
MaxSize == 2        \* object sizes are 1, ..., MaxSize
MaxPayload == 4     \* a JSON document holds 0, ..., MaxPayload videos

-----------------------------------------------------------------------------
(* JavaScript string primitives *)

UpperChars == <<"A","B","C","D","E","F","G","H","I","J","K","L","M",
                "N","O","P","Q","R","S","T","U","V","W","X","Y","Z">>
LowerChars == <<"a","b","c","d","e","f","g","h","i","j","k","l","m",
                "n","o","p","q","r","s","t","u","v","w","x","y","z">>

\* the characters the regular expression \s matches (those the model uses)
WhiteSpace == {" ", "\t", "\n"}

IsSpace(c) == c \in WhiteSpace

LowerChar(c) ==
    IF \E i \in 1..Len(UpperChars) : UpperChars[i] = c
    THEN LowerChars[CHOOSE i \in 1..Len(UpperChars) : UpperChars[i] = c]
    ELSE c

\* String.prototype.toLowerCase
toLowerCase(s) == [i \in 1..Len(s) |-> LowerChar(s[i])]

\* the upper-case mapping of one character: a letter of a..z, the sharp s,
\* whose upper case is two letters, or a character without one
UpperOf(c) ==
    IF \E i \in 1..Len(LowerChars) : LowerChars[i] = c
    THEN <<UpperChars[CHOOSE i \in 1..Len(LowerChars) : LowerChars[i] = c]>>
    ELSE IF c = "ß" THEN <<"S", "S">>
    ELSE <<c>>

\* String.prototype.toUpperCase
RECURSIVE toUpperCase(_)
toUpperCase(s) ==
    IF Len(s) = 0 THEN <<>> ELSE UpperOf(s[1]) \o toUpperCase(Tail(s))

\* String.prototype.includes
includes(h, n) ==
    \E i \in 0..(Len(h) - Len(n)) : SubSeq(h, i + 1, i + Len(n)) = n

\* String.prototype.startsWith
startsWith(w, p) == Len(p) <= Len(w) /\ SubSeq(w, 1, Len(p)) = p

\* Array.prototype.join(' ')
RECURSIVE join(_)
join(list) ==
    IF Len(list) = 0 THEN <<>>
    ELSE IF Len(list) = 1 THEN list[1]
    ELSE list[1] \o <<" ">> \o join(Tail(list))

\* String.prototype.split(/\s+/): the pieces between maximal runs of white
\* space; a leading or trailing run leaves an empty piece.
RECURSIVE split(_)
split(s) ==
    IF \A i \in 1..Len(s) : ~IsSpace(s[i]) THEN <<s>>
    ELSE LET i == CHOOSE k \in 1..Len(s) :
                    IsSpace(s[k]) /\ \A m \in 1..(k - 1) : ~IsSpace(s[m])
             j == CHOOSE k \in (i + 1)..(Len(s) + 1) :
                    /\ \A m \in i..(k - 1) : IsSpace(s[m])
                    /\ (k = Len(s) + 1 \/ ~IsSpace(s[k]))
         IN  <<SubSeq(s, 1, i - 1)>> \o split(SubSeq(s, j, Len(s)))

\* an absent title read as the text 'null', as string concatenation does
OrDefault_NullText(rec, field, dflt) ==
    IF field \in DOMAIN rec THEN rec[field]
    ELSE IF field = "title" THEN <<"n","u","l","l">>
    ELSE dflt

\* video.field || dflt, for a field the catalog record may lack
OrDefault(rec, field, dflt) ==
    IF field \in DOMAIN rec THEN rec[field] ELSE dflt

-----------------------------------------------------------------------------
(* searchByTopics, app.py:588-635 *)

\* the filter keeping every token that is not empty
LongerThanOne_NonEmpty(w) == Len(w) > 0

\* app.py:594: queryLower.split(/\s+/).filter(w => w.length > 1)
LongerThanOne(w) == Len(w) > 1
queryWordsOf(queryLower) == SelectSeq(split(queryLower), LongerThanOne)

\* the prefix test without its w !== word conjunct
isPrefixHit_Any(w, word) == startsWith(w, word)

\* app.py:623: the test of the prefix bonus
isPrefixHit(w, word) == startsWith(w, word) /\ w # word

\* app.py:621-626: allWords.forEach(w => ... score += 3)
RECURSIVE prefixBonus(_, _)
prefixBonus(allWords, word) ==
    IF Len(allWords) = 0 THEN 0
    ELSE (IF isPrefixHit(allWords[1], word) THEN 3 ELSE 0)
         + prefixBonus(Tail(allWords), word)

\* app.py:609-619: the three substring bonuses of one query word
fieldBonus(topics, keywords, title, word) ==
    (IF includes(topics, word) THEN 10 ELSE 0)
    + (IF includes(keywords, word) THEN 8 ELSE 0)
    + (IF includes(title, word) THEN 15 ELSE 0)

\* app.py:608-627: queryWords.forEach(word => ...)
RECURSIVE wordsScore(_, _, _, _, _)
wordsScore(queryWords, topics, keywords, title, allText) ==
    IF Len(queryWords) = 0 THEN 0
    ELSE fieldBonus(topics, keywords, title, queryWords[1])
         + prefixBonus(split(allText), queryWords[1])
         + wordsScore(Tail(queryWords), topics, keywords, title, allText)

\* app.py:604-606: the whole-phrase bonus
phraseBonus(allText, queryLower) ==
    IF includes(allText, queryLower) THEN 20 ELSE 0

\* app.py:596-630: the callback of VIDEOS_DATA.map
videoScore(video, queryLower, queryWords) ==
    LET topics   == toLowerCase(join(OrDefault(video, "topics", <<>>)))
        keywords == toLowerCase(join(OrDefault(video, "keywords", <<>>)))
        title    == toLowerCase(OrDefault(video, "title", <<>>))
        allText  == topics \o <<" ">> \o keywords \o <<" ">> \o title
    IN  phraseBonus(allText, queryLower)
        + wordsScore(queryWords, topics, keywords, title, allText)

\* the filter letting a score of 0 through
keepScored_Zero(v) == v.score >= 0

\* a filter that also drops the video being shown
keepScored_NotCurrent(v) == v.score > 0 /\ v.video.id # currentVideoId

\* app.py:633: .filter(v => v.score > 0)
keepScored(v) == v.score > 0

\* the comparator of an ascending sort
compareScore_Asc(a, b) == a.score - b.score

\* app.py:634: the comparator (a, b) => b.score - a.score
compareScore(a, b) == b.score - a.score

\* Array.prototype.sort is stable: x is placed behind the last element that
\* the comparator does not order after it.
RECURSIVE insertSorted(_, _)
insertSorted(sorted, x) ==
    IF Len(sorted) = 0 THEN <<x>>
    ELSE LET y == sorted[Len(sorted)]
         IN  IF compareScore(y, x) > 0
             THEN insertSorted(SubSeq(sorted, 1, Len(sorted) - 1), x) \o <<y>>
             ELSE sorted \o <<x>>

RECURSIVE sortByScore(_)
sortByScore(list) ==
    IF Len(list) = 0 THEN <<>>
    ELSE insertSorted(sortByScore(SubSeq(list, 1, Len(list) - 1)),
                      list[Len(list)])

\* the score written into the catalog's own object
entryAfterScoring_InPlace(video, score) ==
    [f \in DOMAIN video \cup {"score"} |->
        IF f = "score" THEN score ELSE video[f]]

\* app.py:629: return {...video, score} builds a new object; the object of
\* the catalog is what it was
entryAfterScoring(video, score) == video

\* app.py:596-630: what VIDEOS_DATA holds after the map of searchByTopics
catalogAfterSearch(catalog, query) ==
    IF Len(query) = 0 THEN catalog
    ELSE LET queryLower == toLowerCase(query)
             queryWords == queryWordsOf(queryLower)
         IN  [i \in 1..Len(catalog) |->
                 entryAfterScoring(catalog[i],
                     videoScore(catalog[i], queryLower, queryWords))]

searchByTopics(catalog, query) ==
    IF Len(query) = 0 \/ Len(catalog) = 0 THEN <<>>
    ELSE LET queryLower == toLowerCase(query)
             queryWords == queryWordsOf(queryLower)
             scored == [i \in 1..Len(catalog) |->
                          [video |-> catalog[i],
                           score |-> videoScore(catalog[i], queryLower,
                                                queryWords)]]
         IN  sortByScore(SelectSeq(scored, keepScored))

-----------------------------------------------------------------------------
(* The transcript window of handleGetVideoContent, app.py:684-724 *)

WindowRadius == 10

Abs(x) == IF x < 0 THEN 0 - x ELSE x
Min(a, b) == IF a < b THEN a ELSE b
Max(a, b) == IF a > b THEN a ELSE b

Digits == <<"0","1","2","3","4","5","6","7","8","9">>

\* Number.prototype.toString of a non-negative integer
RECURSIVE toString(_)
toString(n) ==
    IF n < 10 THEN <<Digits[n + 1]>>
    ELSE toString(n \div 10) \o <<Digits[(n % 10) + 1]>>

\* no padding
padStart2_Never(s) == s

\* String.prototype.padStart(2, '0')
padStart2(s) == IF Len(s) >= 2 THEN s ELSE <<"0">> \o s

\* app.py:727-731
formatTime(seconds) ==
    LET mins == seconds \div 60
        secs == seconds % 60
    IN  toString(mins) \o <<":">> \o padStart2(toString(secs))

\* the test without its third disjunct
inWindow_NoSpan(seg, startRange, endRange) ==
    \/ (seg.start >= startRange /\ seg.start <= endRange)
    \/ (seg.end >= startRange /\ seg.end <= endRange)

\* the test with the ends of the window left out
inWindow_Exclusive(seg, startRange, endRange) ==
    \/ (seg.start > startRange /\ seg.start < endRange)
    \/ (seg.end > startRange /\ seg.end < endRange)
    \/ (seg.start <= startRange /\ seg.end >= endRange)

\* app.py:688-690: the test of the filter
inWindow(seg, startRange, endRange) ==
    \/ (seg.start >= startRange /\ seg.start <= endRange)
    \/ (seg.end >= startRange /\ seg.end <= endRange)
    \/ (seg.start <= startRange /\ seg.end >= endRange)

\* app.py:687-691
relevantOf(transcript, timestamp) ==
    LET startRange == Max(0, timestamp - WindowRadius)
        endRange   == timestamp + WindowRadius
        Test(seg)  == inWindow(seg, startRange, endRange)
    IN  SelectSeq(transcript, Test)

\* the distance to the start of the segment alone
boundaryDist_StartOnly(seg, timestamp) == Abs(seg.start - timestamp)

\* app.py:697
boundaryDist(seg, timestamp) ==
    Min(Abs(seg.start - timestamp), Abs(seg.end - timestamp))

\* the comparison with <= for <: the last of the nearest segments wins
isCloser_OrEqual(dist, best) == best = <<>> \/ dist <= best[1].dist

\* app.py:698: dist < minDist, where minDist is Infinity until a segment is
\* taken (best is << >> then)
isCloser(dist, best) == best = <<>> \/ dist < best[1].dist

\* app.py:694-702: the forEach of the fallback; best is << >> (closestSeg
\* null, minDist Infinity) or <<[seg, dist]>>
RECURSIVE closestFrom(_, _, _)
closestFrom(transcript, timestamp, best) ==
    IF Len(transcript) = 0 THEN best
    ELSE LET seg  == transcript[1]
             dist == boundaryDist(seg, timestamp)
         IN  closestFrom(Tail(transcript), timestamp,
                         IF isCloser(dist, best)
                         THEN <<[seg |-> seg, dist |-> dist]>>
                         ELSE best)

\* the selection without the fallback
selectSegments_NoFallback(transcript, timestamp) ==
    relevantOf(transcript, timestamp)

\* app.py:687-707: relevantSegments after the fallback
selectSegments(transcript, timestamp) ==
    LET relevant == relevantOf(transcript, timestamp)
    IN  IF Len(relevant) = 0
        THEN LET best == closestFrom(transcript, timestamp, <<>>)
             IN  IF best # <<>> THEN <<best[1].seg>> ELSE <<>>
        ELSE relevant

\* a line made of the segment's text alone
renderLine_Bare(seg) == seg.text

\* app.py:711: one rendered line
renderLine(seg) ==
    <<"[">> \o formatTime(seg.start) \o <<"-">> \o formatTime(seg.end)
    \o <<"]", " ">> \o seg.text \o <<"\n">>

\* the lines in the reverse of the segments' order
RECURSIVE renderText_LastFirst(_)
renderText_LastFirst(segments) ==
    IF Len(segments) = 0 THEN <<>>
    ELSE renderText_LastFirst(Tail(segments)) \o renderLine(segments[1])

\* app.py:709-712
RECURSIVE renderText(_)
renderText(segments) ==
    IF Len(segments) = 0 THEN <<>>
    ELSE renderLine(segments[1]) \o renderText(Tail(segments))

\* 'Tidak ada konten di timestamp ini', app.py:721
NoContent == <<"T","i","d","a","k"," ","a","d","a"," ","k","o","n","t","e","n"," ","d","i"," ","t","i","m","e","s","t","a","m","p"," ","i","n","i">>

\* app.py:721: contentText || 'Tidak ada konten di timestamp ini'
contentOf(contentText) == IF Len(contentText) = 0 THEN NoContent ELSE contentText

\* app.py:684-724: what handleGetVideoContent computes for a video it found
windowAt(video, timestamp) ==
    LET segments    == selectSegments(OrDefault(video, "transcript", <<>>),
                                      timestamp)
        contentText == renderText(segments)
    IN  [segments |-> segments, content |-> contentOf(contentText)]

\* app.py:687 and 705: filter returned a new array and push extends that
\* one; the transcript of the video is what it was
transcriptAfterFallback(transcript, closestSeg) == transcript

\* app.py:684-707: what VIDEOS_DATA holds after the selection for the video
\* at position i
catalogAfterContent(catalog, i, timestamp) ==
    LET transcript == OrDefault(catalog[i], "transcript", <<>>)
        relevant   == relevantOf(transcript, timestamp)
        best       == closestFrom(transcript, timestamp, <<>>)
    IN  IF Len(relevant) = 0 /\ best # <<>>
        THEN [catalog EXCEPT ![i].transcript =
                  transcriptAfterFallback(transcript, best[1].seg)]
        ELSE catalog

-----------------------------------------------------------------------------
(* The inputs the specifications draw from *)

SeqsUpTo(S, n) == UNION {[1..k -> S] : k \in 0..n}

\* The video of the specification's example and three videos over a
\* two-letter alphabet: repeated words, multi-word topics, upper case, and a
\* video whose title and keywords are absent.
VideoPool == {
    [id |-> "video_001", title |-> <<"H","u","k","u","m"," ","N","e","w","t","o","n">>,
     topics |-> <<<<"g","a","y","a">>, <<"g","e","r","a","k">>>>, keywords |-> <<>>,
     url |-> "u1", transcript |-> <<>>],
    [id |-> "video_002", title |-> <<"A","b">>,
     topics |-> << <<"a","b">> >>,
     keywords |-> << <<"a","b","b">>, <<"b","a">> >>,
     url |-> "u2", transcript |-> <<>>],
    [id |-> "video_003", title |-> <<"b"," ","a","b">>,
     topics |-> << <<"a"," ","b">>, <<"a","b","a","b">> >>,
     keywords |-> << <<"a","b">> >>,
     url |-> "u3", transcript |-> <<>>],
    [id |-> "video_004",
     topics |-> << <<"a","b","b">> >>,
     url |-> "u4", transcript |-> <<>>] }

\* catalogs: sequences of videos with pairwise distinct ids
Catalogs ==
    {c \in SeqsUpTo(VideoPool, MaxVideos) :
        \A i, j \in 1..Len(c) : i # j => c[i].id # c[j].id}

QueryChars == {"a", "b", "B", " "}

ExampleQueries == { <<"a","b"," ","a","b">>, <<"a","b"," "," ","b","a">>,
                    <<" ","a","b","b"," ","a">>, <<"A","B","A","B">>,
                    <<"n","e","w","t","o","n">>, <<"N","E","W","T","O","N">>, <<"x","y","z","1","2","3">>, <<"g","a","y","a"," ","g","e","r","a","k">>, <<"\t">> }

Queries == SeqsUpTo(QueryChars, MaxQueryLen) \cup ExampleQueries

SegTimes == {10 * k : k \in 0..MaxTick}

Timestamps == {5 * k : k \in 0..MaxTsTick}

\* a timestamp far beyond every segment, as in the specification's example
FarTimestamps == {1000}

SegTexts == { <<>>, <<"a">> }

SegmentsWith(text) == [start : SegTimes, end : SegTimes, text : {text}]

\* a transcript of two consecutive segments of five seconds
ShortSegments ==
    << [start |-> 10, end |-> 15, text |-> <<"a">>],
       [start |-> 15, end |-> 20, text |-> <<"b">>] >>

\* transcripts: any order, gaps, overlaps and end < start included
Transcripts ==
    UNION {SeqsUpTo(SegmentsWith(text), MaxSegs) : text \in SegTexts}
        \cup {ShortSegments}

WindowVideo(transcript) ==
    [id |-> "video_001", title |-> <<"A","b">>, topics |-> <<>>,
     keywords |-> <<>>, url |-> "u1", transcript |-> transcript]

NoCall == [name |-> "none"]
NoResult == [success |-> Null]

-----------------------------------------------------------------------------
(* The search and the window as pure functions of their inputs *)

\* the page as loaded: app.py:459-464, the markup at app.py:397-400 and 445
PageIdle ==
    /\ currentVideoId = Null
    /\ videoSrc = ""
    /\ currentTime = 0
    /\ readyState = "nothing"
    /\ onLoad = <<>>
    /\ lastCommand = "none"
    /\ pc = "idle"
    /\ peerConnection = Null
    /\ dataChannel = Null
    /\ mediaStream = Null
    /\ audioElement = Null
    /\ isConnected = FALSE
    /\ startDisabled = FALSE
    /\ stopDisabled = TRUE
    /\ greetingTimers = 0
    /\ leaked = 0
    /\ starts = 0
    /\ outbox = <<>>
    /\ callCount = 0
    /\ lastCall = NoCall
    /\ results = <<>>
    /\ lastResult = NoResult

NotLoaded == [result |-> [status |-> "none"]]

\* the ingestion script and the loader before they run
OfflineIdle ==
    /\ video_list = <<>>
    /\ video_index = 0
    /\ processed_videos = <<>>
    /\ outcomes = <<>>
    /\ videos_json = Null
    /\ ingestPc = "idle"
    /\ loaded = NotLoaded

InitPage == PageIdle /\ OfflineIdle

InitSearch == VIDEOS_DATA \in Catalogs /\ InitPage

SearchStep ==
    \E q \in Queries :
        /\ lastCall = NoCall
        /\ lastCall' = [name |-> "searchByTopics", args |-> [query |-> q]]
        /\ results' = searchByTopics(VIDEOS_DATA, q)
        /\ UNCHANGED <<offline, VIDEOS_DATA, player, session, outbox, callCount,
                       lastResult>>

SpecSearch == InitSearch /\ [][SearchStep]_vars

\* videos that lack fields, one of them with a letter whose upper case is
\* two letters
SparsePool == {
    [id |-> "video_001", title |-> <<"a","ß">>, url |-> "u1",
     transcript |-> <<>>],
    [id |-> "video_002", topics |-> << <<"B"," ","a">>, <<"a","s","s">> >>,
     url |-> "u2", transcript |-> <<>>],
    [id |-> "video_003", keywords |-> << <<"a","b">> >>, url |-> "u3",
     transcript |-> <<>>] }

SparseCatalogs ==
    {c \in SeqsUpTo(SparsePool, MaxSparseVideos) :
        \A i, j \in 1..Len(c) : i # j => c[i].id # c[j].id}

VariantChars == {"a", "S", "ß", " "}

VariantQueries ==
    SeqsUpTo(VariantChars, MaxVariantLen)
        \cup { <<"n","u","l","l">>, <<"n","u">>, <<"A","S","S"," ","B">> }

InitVariants == VIDEOS_DATA \in SparseCatalogs /\ InitPage

\* a query searched as it is, in lower case and in upper case
VariantStep ==
    \E q \in VariantQueries :
        /\ lastCall = NoCall
        /\ lastCall' = [name |-> "searchByTopics", args |-> [query |-> q]]
        /\ results' = searchByTopics(VIDEOS_DATA, q)
        /\ lastResult' =
               [success |-> TRUE,
                lower |-> searchByTopics(VIDEOS_DATA, toLowerCase(q)),
                upper |-> searchByTopics(VIDEOS_DATA, toUpperCase(q))]
        /\ UNCHANGED <<offline, VIDEOS_DATA, player, session, outbox, callCount>>

SpecVariants == InitVariants /\ [][VariantStep]_vars

InitWindow ==
    VIDEOS_DATA \in {<<WindowVideo(tr)>> : tr \in Transcripts} /\ InitPage

\* app.py:716-724: the object handleGetVideoContent answers with
contentResult(video, videoId, timestamp) ==
    LET w == windowAt(video, timestamp)
    IN  [success |-> TRUE, video_id |-> videoId, timestamp |-> timestamp,
         content |-> w.content, segments |-> w.segments]

WindowStep ==
    \E t \in Timestamps \cup FarTimestamps :
        /\ lastCall = NoCall
        /\ lastCall' = [name |-> "windowAt",
                        args |-> [video_id |-> VIDEOS_DATA[1].id,
                                  timestamp |-> t]]
        /\ lastResult' = contentResult(VIDEOS_DATA[1], VIDEOS_DATA[1].id, t)
        /\ UNCHANGED <<offline, VIDEOS_DATA, player, session, outbox, callCount,
                       results>>

SpecWindow == InitWindow /\ [][WindowStep]_vars

\* formatTime applied to a number of seconds
FormatStep ==
    \E seconds \in 0..MaxSeconds :
        /\ lastCall = NoCall
        /\ lastCall' = [name |-> "formatTime", args |-> [seconds |-> seconds]]
        /\ lastResult' = [success |-> TRUE, text |-> formatTime(seconds)]
        /\ UNCHANGED <<offline, VIDEOS_DATA, player, session, outbox, callCount,
                       results>>

InitFormat == VIDEOS_DATA = <<>> /\ InitPage

SpecFormat == InitFormat /\ [][FormatStep]_vars

-----------------------------------------------------------------------------
(* Relevance search: C1 - C4 *)

RECURSIVE SumFn(_)
SumFn(f) ==
    IF DOMAIN f = {} THEN 0
    ELSE LET x == CHOOSE y \in DOMAIN f : TRUE
         IN  f[x] + SumFn([y \in DOMAIN f \ {x} |-> f[y]])

\* the maximal runs of non-white-space characters of s, as <<first, last>>
Runs(s) ==
    {r \in (1..Len(s)) \X (1..Len(s)) :
        /\ r[1] <= r[2]
        /\ \A k \in r[1]..r[2] : s[k] \notin WhiteSpace
        /\ (r[1] = 1 \/ s[r[1] - 1] \in WhiteSpace)
        /\ (r[2] = Len(s) \/ s[r[2] + 1] \in WhiteSpace)}

\* the score as the specification states it
ClaimScore(video, query) ==
    LET q        == toLowerCase(query)
        topicsT  == toLowerCase(join(OrDefault(video, "topics", <<>>)))
        keysT    == toLowerCase(join(OrDefault(video, "keywords", <<>>)))
        titleT   == toLowerCase(OrDefault(video, "title", <<>>))
        allText  == topicsT \o <<" ">> \o keysT \o <<" ">> \o titleT
        words    == {r \in Runs(q) : r[2] - r[1] + 1 > 1}
        Tok(r)   == SubSeq(allText, r[1], r[2])
        PerWord(w) ==
            (IF includes(topicsT, w) THEN 10 ELSE 0)
            + (IF includes(keysT, w) THEN 8 ELSE 0)
            + (IF includes(titleT, w) THEN 15 ELSE 0)
            + 3 * Cardinality({r \in Runs(allText) :
                                 startsWith(Tok(r), w) /\ Tok(r) # w})
    IN  (IF includes(allText, q) THEN 20 ELSE 0)
        + SumFn([r \in words |-> PerWord(SubSeq(q, r[1], r[2]))])

Searched == lastCall.name \in {"searchByTopics", "search_video"}

TheQuery ==
    IF "query" \in DOMAIN lastCall.args THEN lastCall.args.query ELSE <<>>

NewtonVideo == CHOOSE v \in VideoPool : v.id = "video_001"

CatalogIndex(video) ==
    CHOOSE i \in 1..Len(VIDEOS_DATA) : VIDEOS_DATA[i].id = video.id

\* C1: for a non-empty query every catalog video is scored as the
\* specification states: a result carries exactly that score, a video with a
\* positive such score is a result, and no other video is. The one-video
\* Newton catalog scores 'newton' at least 15 and excludes 'xyz123'.
C1_ScoreFormula ==
    (Searched /\ Len(TheQuery) > 0) =>
        /\ \A k \in 1..Len(results) :
               /\ \E i \in 1..Len(VIDEOS_DATA) :
                      VIDEOS_DATA[i] = results[k].video
               /\ results[k].score = ClaimScore(results[k].video, TheQuery)
        /\ \A i \in 1..Len(VIDEOS_DATA) :
               ClaimScore(VIDEOS_DATA[i], TheQuery) > 0 =>
                   \E k \in 1..Len(results) :
                       results[k].video = VIDEOS_DATA[i]
        /\ (VIDEOS_DATA = <<NewtonVideo>> /\ TheQuery = <<"n","e","w","t","o","n">>) =>
               (Len(results) = 1 /\ results[1].score >= 15)
        /\ (VIDEOS_DATA = <<NewtonVideo>> /\ TheQuery = <<"x","y","z","1","2","3">>) =>
               results = <<>>

\* a query of two words, one of them repeated, against a video where a word
\* is a whole token and a proper prefix of others
C1_Witness ==
    /\ Searched
    /\ TheQuery = <<"a","b"," "," ","b","a">>
    /\ \E k \in 1..Len(results) :
           /\ results[k].video.id = "video_002"
           /\ results[k].score = (10 + 8 + 15 + 3) + 8

\* C2: the results are in descending order of score, and results of equal
\* score are in catalog order.
C2_SortedStable ==
    Searched =>
        \A k, m \in 1..Len(results) :
            k < m =>
                /\ results[k].score >= results[m].score
                /\ results[k].score = results[m].score =>
                       CatalogIndex(results[k].video)
                           < CatalogIndex(results[m].video)

\* three results, a tie among them, and the first video of the catalog last
C2_Witness ==
    /\ Searched
    /\ Len(results) = 3
    /\ results[1].score = results[2].score
    /\ results[2].score > results[3].score
    /\ CatalogIndex(results[3].video) = 1

\* C3: every result has score >= 1, no video is returned twice, and for a
\* non-empty query a catalog video is returned exactly if its score is > 0.
C3_PositiveExactly ==
    Searched =>
        /\ \A k \in 1..Len(results) : results[k].score >= 1
        /\ \A k, m \in 1..Len(results) :
               results[k].video = results[m].video => k = m
        /\ Len(TheQuery) > 0 =>
               \A i \in 1..Len(VIDEOS_DATA) :
                   (\E k \in 1..Len(results) :
                        results[k].video = VIDEOS_DATA[i])
                   <=> ClaimScore(VIDEOS_DATA[i], TheQuery) > 0

\* a search that returns one video of the catalog and drops another
C3_Witness ==
    /\ Searched
    /\ Len(TheQuery) > 0
    /\ Len(VIDEOS_DATA) = 3
    /\ Len(results) = 1
    /\ results[1].score >= 1

\* C4 (as claimed): an empty or white-space-only query returns no result.
C4_BlankQueryEmpty ==
    (Searched /\ \A i \in 1..Len(TheQuery) : TheQuery[i] \in WhiteSpace) =>
        results = <<>>

-----------------------------------------------------------------------------
(* Transcript window: C5 - C8 *)

\* a get_video_content request that found its video
Windowed ==
    /\ lastCall.name \in {"windowAt", "get_video_content"}
    /\ lastResult.success = TRUE

TheVideo ==
    CHOOSE v \in {VIDEOS_DATA[i] : i \in 1..Len(VIDEOS_DATA)} :
        v.id = lastResult.video_id

TheTranscript == OrDefault(TheVideo, "transcript", <<>>)

\* the video id a get_video_content request is answered for (app.py:671)
RequestedId ==
    IF "video_id" \in DOMAIN lastCall.args /\ lastCall.args.video_id # ""
    THEN lastCall.args.video_id
    ELSE currentVideoId

\* the window condition as the specification states it
ClaimInWindow(seg, t) ==
    LET startRange == IF t - 10 > 0 THEN t - 10 ELSE 0
        endRange   == t + 10
    IN  \/ seg.start \in startRange..endRange
        \/ seg.end \in startRange..endRange
        \/ (seg.start <= startRange /\ seg.end >= endRange)

\* the positions of the transcript the window selects
WindowIndexes ==
    {i \in 1..Len(TheTranscript) :
        ClaimInWindow(TheTranscript[i], lastResult.timestamp)}

\* the k-th smallest element of a set of numbers
Kth(I, k) == CHOOSE i \in I : Cardinality({j \in I : j < i}) = k - 1

ClaimDist(seg, t) ==
    LET ds == IF seg.start >= t THEN seg.start - t ELSE t - seg.start
        de == IF seg.end >= t THEN seg.end - t ELSE t - seg.end
    IN  IF ds <= de THEN ds ELSE de

\* C5: a non-empty window selection is returned as it is: exactly the
\* segments that start in the window, end in it or span it, in transcript
\* order, each once.
C5_WindowSelection ==
    (Windowed /\ WindowIndexes # {}) =>
        /\ Len(lastResult.segments) = Cardinality(WindowIndexes)
        /\ \A k \in 1..Len(lastResult.segments) :
               lastResult.segments[k] = TheTranscript[Kth(WindowIndexes, k)]

\* of two segments the second is selected only because it spans the window,
\* the first, which ends before it starts, is not selected
C5_Witness ==
    /\ Windowed
    /\ lastResult.timestamp = 20
    /\ Len(TheTranscript) = 2
    /\ TheTranscript[1].start = 40 /\ TheTranscript[1].end = 0
    /\ TheTranscript[2].start = 0 /\ TheTranscript[2].end = 40
    /\ lastResult.segments = <<TheTranscript[2]>>

\* C6: with an empty window selection and a non-empty transcript the result
\* is the one segment nearest by either boundary, the first such in
\* transcript order.
C6_NearestFallback ==
    (Windowed /\ WindowIndexes = {} /\ Len(TheTranscript) > 0) =>
        \E m \in 1..Len(TheTranscript) :
            /\ \A j \in 1..Len(TheTranscript) :
                   ClaimDist(TheTranscript[m], lastResult.timestamp)
                       <= ClaimDist(TheTranscript[j], lastResult.timestamp)
            /\ \A j \in 1..(m - 1) :
                   ClaimDist(TheTranscript[m], lastResult.timestamp)
                       < ClaimDist(TheTranscript[j], lastResult.timestamp)
            /\ lastResult.segments = <<TheTranscript[m]>>

\* as in the example of the specification: a = [0, 10], b = [30, 40] and
\* t = 1000, far beyond both
C6_Witness ==
    /\ Windowed
    /\ lastResult.timestamp = 1000
    /\ Len(TheTranscript) = 2
    /\ TheTranscript[1].start = 0 /\ TheTranscript[1].end = 10
    /\ TheTranscript[2].start = 30 /\ TheTranscript[2].end = 40
    /\ lastResult.segments = <<TheTranscript[2]>>

\* C7: the content is the sentinel exactly if no segment is returned.
C7_SentinelIffEmpty ==
    Windowed =>
        (lastResult.content = NoContent <=> lastResult.segments = <<>>)

\* a returned segment whose text is empty
C7_Witness ==
    /\ Windowed
    /\ Len(lastResult.segments) = 1
    /\ lastResult.segments[1].text = <<>>
    /\ lastResult.content = <<"[","0",":","1","0","-","0",":","2","0","]"," ","\n">>

\* C8: an empty transcript yields no segment and the sentinel, as a
\* successful result; a non-empty transcript yields at least one segment.
C8_EmptyTranscript ==
    (lastCall.name \in {"windowAt", "get_video_content"}
        /\ \E i \in 1..Len(VIDEOS_DATA) :
               VIDEOS_DATA[i].id = RequestedId) =>
        /\ lastResult.success = TRUE
        /\ Len(TheTranscript) = 0 =>
               (lastResult.segments = <<>> /\ lastResult.content = NoContent)
        /\ Len(TheTranscript) > 0 => lastResult.segments # <<>>

C8_Witness ==
    /\ Windowed
    /\ Len(TheTranscript) = 0
    /\ lastResult.timestamp = 30
    /\ lastResult.content = NoContent

-----------------------------------------------------------------------------
(* The page: the video element, the tool handlers and the conversation *)

\* the catalog of Spec: the transcript of the specification's example, a
\* video without transcript and a video without url
SessionCatalog == <<
    [id |-> "video_001", title |-> <<"H","u","k","u","m"," ","N","e","w","t","o","n">>,
     topics |-> <<<<"g","a","y","a">>, <<"g","e","r","a","k">>>>, keywords |-> <<>>, url |-> "u1",
     transcript |-> <<[start |-> 0, end |-> 10, text |-> <<"a">>],
                      [start |-> 40, end |-> 50, text |-> <<"b">>]>>],
    [id |-> "video_002", title |-> <<"A","b">>,
     topics |-> << <<"a","b">> >>, keywords |-> << <<"g","a","y","a">> >>,
     url |-> "u2", transcript |-> <<>>],
    [id |-> "video_003", title |-> <<"b"," ","a","b">>,
     topics |-> <<>>, keywords |-> <<>>, url |-> "",
     transcript |-> <<[start |-> 0, end |-> 10, text |-> <<>>]>>] >>

\* the arguments the model may send: each field present or not
\* navigate_video: a video of the catalog, the video without url, an id the
\* catalog lacks, no id, an empty id, no timestamp
NavigateArgs == {
    [video_id |-> "video_001", timestamp |-> 45],
    [video_id |-> "video_002", timestamp |-> 1000],
    [video_id |-> "video_003", timestamp |-> 45],
    [video_id |-> "video_999", timestamp |-> 45],
    [video_id |-> "", timestamp |-> 1000],
    [timestamp |-> 45],
    [video_id |-> "video_002"] }

\* get_video_content: the same cases
ContentArgs == {
    [video_id |-> "video_001", timestamp |-> 45],
    [video_id |-> "video_001", timestamp |-> 1000],
    [video_id |-> "video_002", timestamp |-> 45],
    [video_id |-> "video_003"],
    [video_id |-> "video_999", timestamp |-> 1000],
    [timestamp |-> 45],
    [video_id |-> "", timestamp |-> 1000] }

\* search_video: a match, a match whose best video has no url, no match, a
\* blank query, no query
SearchArgs == {[query |-> <<"n","e","w","t","o","n">>],
               [query |-> <<"b"," ","a","b">>],
               [query |-> <<"x","y","z","1","2","3">>],
               [query |-> <<" ">>],
               <<>>}

HasField(args, field) == field \in DOMAIN args

\* args.timestamp || 0
timestampOf(args) == IF HasField(args, "timestamp") THEN args.timestamp ELSE 0

\* args.video_id, "" standing for a value that is not truthy
videoIdOf(args) == IF HasField(args, "video_id") THEN args.video_id ELSE ""

\* VIDEOS_DATA.find(v => v.id === videoId): << >> or <<video>>
findVideo(catalog, videoId) ==
    LET hits == {i \in 1..Len(catalog) : catalog[i].id = videoId}
    IN  IF hits = {} THEN <<>>
        ELSE <<catalog[CHOOSE i \in hits : \A j \in hits : i <= j]>>

\* the position VIDEOS_DATA.find stops at
indexOf(catalog, videoId) ==
    CHOOSE i \in 1..Len(catalog) :
        /\ catalog[i].id = videoId
        /\ \A j \in 1..(i - 1) : catalog[j].id # videoId

Player ==
    [currentVideoId |-> currentVideoId, src |-> videoSrc,
     currentTime |-> currentTime, readyState |-> readyState,
     onLoad |-> onLoad, command |-> "none"]

SetPlayer(p) ==
    /\ currentVideoId' = p.currentVideoId
    /\ videoSrc' = p.src
    /\ currentTime' = p.currentTime
    /\ readyState' = p.readyState
    /\ onLoad' = p.onLoad
    /\ lastCommand' = p.command

\* app.py:507-543. load() returns the position of a loaded medium to 0; the
\* listener stays registered until 'loadedmetadata' fires.
showVideo(p, videoData, timestamp) ==
    IF OrDefault(videoData, "url", "") = "" THEN p
    ELSE [p EXCEPT !.currentVideoId = videoData.id,
                   !.src = videoData.url,
                   !.currentTime = IF p.readyState = "loaded" THEN 0 ELSE @,
                   !.readyState = "loading",
                   !.onLoad = Append(@, timestamp),
                   !.command = "show"]

\* app.py:545-550
navigateToTimestamp(p, timestamp) ==
    IF p.src # ""
    THEN [p EXCEPT !.currentTime = timestamp, !.command = "seek"]
    ELSE p

\* a result sent only when it reports a success
sendFunctionResult_OnSuccess(callId, result) ==
    /\ lastResult' = result
    /\ outbox' = IF dataChannel = "open" /\ result.success = TRUE
                 THEN Append(outbox, [type |-> "function_call_output",
                                      call_id |-> callId])
                 ELSE outbox

\* a result sent without looking at the channel
sendFunctionResult_AnyChannel(callId, result) ==
    /\ lastResult' = result
    /\ outbox' = Append(outbox, [type |-> "function_call_output",
                                 call_id |-> callId])

\* app.py:552-565. The outbox keeps the type and call_id of the item sent;
\* its output is the result, which lastResult holds.
sendFunctionResult(callId, result) ==
    /\ lastResult' = result
    /\ outbox' = IF dataChannel = "open"
                 THEN Append(outbox, [type |-> "function_call_output",
                                      call_id |-> callId])
                 ELSE outbox

\* app.py:567-586
handleNavigateVideo(args, callId) ==
    LET timestamp == timestampOf(args)
        videoId   == videoIdOf(args)
        video     == findVideo(VIDEOS_DATA, videoId)
    IN  /\ SetPlayer(IF videoId # "" /\ videoId # currentVideoId
                     THEN IF video # <<>>
                          THEN showVideo(Player, video[1], timestamp)
                          ELSE Player
                     ELSE navigateToTimestamp(Player, timestamp))
        /\ sendFunctionResult(callId,
               [success |-> TRUE, message |-> "Video berpindah ke detik",
                timestamp |-> timestamp])
        /\ UNCHANGED <<VIDEOS_DATA, results>>

\* app.py:637-667
handleSearchVideo(args, callId) ==
    LET query == IF HasField(args, "query") THEN args.query ELSE <<>>
    IN  \E found \in {searchByTopics(VIDEOS_DATA, query)} :
            /\ results' = found
            /\ VIDEOS_DATA' = catalogAfterSearch(VIDEOS_DATA, query)
            /\ IF Len(found) > 0
               THEN LET best == found[1]
                    IN  /\ SetPlayer(showVideo(Player, best.video, 0))
                        /\ sendFunctionResult(callId,
                               [success |-> TRUE, video_id |-> best.video.id,
                                title |-> OrDefault(best.video, "title", Null),
                                score |-> best.score,
                                message |-> "Menemukan video"])
               ELSE /\ SetPlayer(Player)
                    /\ sendFunctionResult(callId,
                           [success |-> FALSE,
                            message |-> "Tidak menemukan video yang relevan",
                            query |-> query])

\* the id of the request alone
contentVideoId_Required(args) == videoIdOf(args)

\* app.py:671: args.video_id || currentVideoId
contentVideoId(args) ==
    IF videoIdOf(args) # "" THEN videoIdOf(args) ELSE currentVideoId

\* the handler seeking before it looks the video up
handleGetVideoContent_SeekFirst(args, callId) ==
    LET timestamp == timestampOf(args)
        videoId   == contentVideoId(args)
        video     == findVideo(VIDEOS_DATA, videoId)
    IN  /\ SetPlayer(navigateToTimestamp(Player, timestamp))
        /\ IF video = <<>>
           THEN sendFunctionResult(callId,
                    [success |-> FALSE, message |-> "Video tidak ditemukan"])
           ELSE sendFunctionResult(callId,
                    contentResult(video[1], videoId, timestamp))
        /\ UNCHANGED <<VIDEOS_DATA, results>>

\* app.py:669-725
handleGetVideoContent(args, callId) ==
    LET timestamp == timestampOf(args)
        videoId   == contentVideoId(args)
        video     == findVideo(VIDEOS_DATA, videoId)
    IN  /\ IF video = <<>>
           THEN /\ SetPlayer(Player)
                /\ sendFunctionResult(callId,
                       [success |-> FALSE,
                        message |-> "Video tidak ditemukan"])
                /\ UNCHANGED VIDEOS_DATA
           ELSE /\ SetPlayer(navigateToTimestamp(Player, timestamp))
                /\ sendFunctionResult(callId,
                       contentResult(video[1], videoId, timestamp))
                /\ VIDEOS_DATA' = catalogAfterContent(VIDEOS_DATA,
                                      indexOf(VIDEOS_DATA, videoId),
                                      timestamp)
        /\ UNCHANGED results

\* app.py:916-936: a 'response.function_call_arguments.done' event, which
\* dataChannel.onmessage (app.py:860-863) delivers while the channel is open
ToolCall(name, args, limit) ==
    /\ dataChannel = "open"
    /\ callCount < limit
    /\ callCount' = callCount + 1
    /\ lastCall' = [name |-> name, args |-> args, call_id |-> callCount + 1]
    /\ UNCHANGED <<session, offline>>

NavigateVideo(limit) ==
    \E args \in NavigateArgs :
        ToolCall("navigate_video", args, limit)
        /\ handleNavigateVideo(args, callCount + 1)

SearchVideo(limit) ==
    \E args \in SearchArgs :
        ToolCall("search_video", args, limit)
        /\ handleSearchVideo(args, callCount + 1)

GetVideoContent(limit) ==
    \E args \in ContentArgs :
        ToolCall("get_video_content", args, limit)
        /\ handleGetVideoContent(args, callCount + 1)

\* app.py:860-863, 916-936: a 'response.function_call_arguments.done' event
\* that arrived on a channel which was open (it sent something, handled a
\* call or scheduled the greeting) and is dispatched after Stop closed that
\* channel: the handler runs with dataChannel null, or holding the channel of
\* the next start that has not opened yet
LateToolCall(limit) ==
    /\ dataChannel \in {Null, "connecting"}
    /\ (outbox # <<>> \/ greetingTimers > 0 \/ callCount > 0)
    /\ callCount < limit
    /\ callCount' = callCount + 1
    /\ UNCHANGED <<session, offline>>
    /\ \/ \E args \in NavigateArgs :
              /\ lastCall' = [name |-> "navigate_video", args |-> args,
                              call_id |-> callCount + 1]
              /\ handleNavigateVideo(args, callCount + 1)
       \/ \E args \in SearchArgs :
              /\ lastCall' = [name |-> "search_video", args |-> args,
                              call_id |-> callCount + 1]
              /\ handleSearchVideo(args, callCount + 1)
       \/ \E args \in ContentArgs :
              /\ lastCall' = [name |-> "get_video_content", args |-> args,
                              call_id |-> callCount + 1]
              /\ handleGetVideoContent(args, callCount + 1)

\* the last listener to run leaves its timestamp
RECURSIVE runListeners(_, _)
runListeners(listeners, time) ==
    IF Len(listeners) = 0 THEN time
    ELSE runListeners(Tail(listeners), listeners[1])

\* app.py:535-542: 'loadedmetadata' fires; every registered onLoad listener
\* sets the position to its timestamp and removes itself
LoadedMetadata ==
    /\ readyState = "loading"
    /\ readyState' = "loaded"
    /\ currentTime' = runListeners(onLoad, currentTime)
    /\ onLoad' = <<>>
    /\ UNCHANGED <<offline, VIDEOS_DATA, currentVideoId, videoSrc, lastCommand,
                   session, calls>>

\* app.py:755-759: a click on Start runs startConversation up to its first
\* await, the request for a session token
StartConversation ==
    /\ ~startDisabled
    /\ pc = "idle"
    /\ starts < MaxStarts
    /\ starts' = starts + 1
    /\ startDisabled' = TRUE
    /\ pc' = "token"
    /\ UNCHANGED <<offline, VIDEOS_DATA, player, calls, peerConnection, dataChannel,
                   mediaStream, audioElement, isConnected, stopDisabled,
                   greetingTimers, leaked>>

\* app.py:815-838: the token arrived; a peer connection and an audio element
\* replace what the variables held; getUserMedia is awaited
TokenReceived ==
    /\ pc = "token"
    /\ leaked' = leaked + (IF peerConnection # Null THEN 1 ELSE 0)
    /\ peerConnection' = "new"
    /\ audioElement' = "created"
    /\ pc' = "media"
    /\ UNCHANGED <<offline, VIDEOS_DATA, player, calls, dataChannel, mediaStream,
                   isConnected, startDisabled, stopDisabled, greetingTimers,
                   starts>>

\* app.py:832-880: the microphone stream arrived; its tracks are added, the
\* data channel is created, the offer is made and posted
MediaGranted ==
    /\ pc = "media"
    /\ leaked' = leaked + (IF mediaStream # Null THEN 1 ELSE 0)
    /\ mediaStream' = "live"
    /\ dataChannel' = "connecting"
    /\ pc' = "sdp"
    /\ UNCHANGED <<offline, VIDEOS_DATA, player, calls, peerConnection, audioElement,
                   isConnected, startDisabled, stopDisabled, greetingTimers,
                   starts>>

\* app.py:882-890: the answer arrived and setRemoteDescription is awaited
SdpAnswered ==
    /\ pc = "sdp"
    /\ pc' = "answer"
    /\ UNCHANGED <<offline, VIDEOS_DATA, player, calls, peerConnection, dataChannel,
                   mediaStream, audioElement, isConnected, startDisabled,
                   stopDisabled, greetingTimers, leaked, starts>>

\* app.py:887-891: the answer is applied and startConversation returns
AnswerApplied ==
    /\ pc = "answer"
    /\ peerConnection' = "stable"
    /\ pc' = "idle"
    /\ UNCHANGED <<offline, VIDEOS_DATA, player, calls, dataChannel, mediaStream,
                   audioElement, isConnected, startDisabled, stopDisabled,
                   greetingTimers, leaked, starts>>

\* app.py:892-897: any of the awaited steps throws
StartFailed ==
    /\ pc \in {"token", "media", "sdp", "answer"}
    /\ startDisabled' = FALSE
    /\ stopDisabled' = TRUE
    /\ pc' = "idle"
    /\ UNCHANGED <<offline, VIDEOS_DATA, player, calls, peerConnection, dataChannel,
                   mediaStream, audioElement, isConnected, greetingTimers,
                   leaked, starts>>

\* app.py:846-858: dataChannel.onopen
ChannelOpened ==
    /\ dataChannel = "connecting"
    /\ peerConnection = "stable"
    /\ dataChannel' = "open"
    /\ isConnected' = TRUE
    /\ stopDisabled' = FALSE
    /\ greetingTimers' = greetingTimers + 1
    /\ UNCHANGED <<offline, VIDEOS_DATA, player, calls, pc, peerConnection,
                   mediaStream, audioElement, startDisabled, leaked, starts>>

\* app.py:734-753 run by the timer of app.py:855-857
GreetingTimer ==
    /\ greetingTimers > 0
    /\ greetingTimers' = greetingTimers - 1
    /\ outbox' = IF dataChannel = "open"
                 THEN Append(outbox, [type |-> "message"])
                 ELSE outbox
    /\ UNCHANGED <<offline, VIDEOS_DATA, player, callCount, lastCall, results,
                   lastResult, pc, peerConnection, dataChannel, mediaStream,
                   audioElement, isConnected, startDisabled, stopDisabled,
                   leaked, starts>>

\* app.py:865-868: the channel is closed from the far side
ChannelClosed ==
    /\ dataChannel = "open"
    /\ dataChannel' = "closed"
    /\ isConnected' = FALSE
    /\ UNCHANGED <<offline, VIDEOS_DATA, player, calls, pc, peerConnection,
                   mediaStream, audioElement, startDisabled, stopDisabled,
                   greetingTimers, leaked, starts>>

\* app.py:957-984: a click on Stop
StopConversation ==
    /\ ~stopDisabled
    /\ isConnected' = FALSE
    /\ dataChannel' = Null
    /\ peerConnection' = Null
    /\ mediaStream' = Null
    /\ audioElement' = Null
    /\ startDisabled' = FALSE
    /\ stopDisabled' = TRUE
    /\ UNCHANGED <<offline, VIDEOS_DATA, player, calls, pc, greetingTimers, leaked,
                   starts>>

Init == VIDEOS_DATA = SessionCatalog /\ InitPage

\* A conversation that connects and stays connected, and the tool
\* invocations, media events and timers within it.
Next ==
    \/ NavigateVideo(MaxCalls)
    \/ SearchVideo(MaxCalls)
    \/ GetVideoContent(MaxCalls)
    \/ LoadedMetadata
    \/ StartConversation
    \/ TokenReceived
    \/ MediaGranted
    \/ SdpAnswered
    \/ AnswerApplied
    \/ ChannelOpened
    \/ GreetingTimer

Spec == Init /\ [][Next]_vars

\* The same with the ways a conversation fails and ends: a step of
\* startConversation throws, the far side closes the channel, Stop is clicked.
NextSession ==
    \/ NavigateVideo(MaxSessionCalls)
    \/ SearchVideo(MaxSessionCalls)
    \/ GetVideoContent(MaxSessionCalls)
    \/ LateToolCall(MaxSessionCalls)
    \/ LoadedMetadata
    \/ StartConversation
    \/ TokenReceived
    \/ MediaGranted
    \/ SdpAnswered
    \/ AnswerApplied
    \/ StartFailed
    \/ ChannelOpened
    \/ GreetingTimer
    \/ ChannelClosed
    \/ StopConversation

SpecSession == Init /\ [][NextSession]_vars

-----------------------------------------------------------------------------
(* Requests for a video the catalog lacks: C9, C10 *)

InCatalog(videoId) ==
    \E i \in 1..Len(VIDEOS_DATA) : VIDEOS_DATA[i].id = videoId

\* the step that handles a get_video_content request naming a video that is
\* not in the catalog
ContentOfMissingVideo ==
    /\ callCount' = callCount + 1
    /\ lastCall'.name = "get_video_content"
    /\ videoIdOf(lastCall'.args) # ""
    /\ ~InCatalog(videoIdOf(lastCall'.args))

\* C9: such a request is answered with success = false and 'Video tidak
\* ditemukan' under the call_id of the request; no show or seek command is
\* issued, and currentVideoId and the video element are as before.
C9_ContentNotFound ==
    [][ContentOfMissingVideo =>
          /\ lastResult' = [success |-> FALSE,
                            message |-> "Video tidak ditemukan"]
          /\ outbox' = Append(outbox, [type |-> "function_call_output",
                                       call_id |-> lastCall'.call_id])
          /\ lastCommand' = "none"
          /\ UNCHANGED <<currentVideoId, videoSrc, currentTime, readyState,
                         onLoad>>]_vars

\* a video was shown and has loaded at second 45 when the request for a
\* missing video is answered
C9_Witness ==
    /\ lastCall.name = "get_video_content"
    /\ videoIdOf(lastCall.args) = "video_999"
    /\ lastResult = [success |-> FALSE, message |-> "Video tidak ditemukan"]
    /\ currentVideoId = "video_001"
    /\ readyState = "loaded"
    /\ currentTime = 45
    /\ timestampOf(lastCall.args) # currentTime

\* C10 (as claimed): a navigate_video request naming a video that is not in
\* the catalog is answered with a failure.
C10_NavigateNotFound ==
    (/\ lastCall.name = "navigate_video"
     /\ videoIdOf(lastCall.args) # ""
     /\ ~InCatalog(videoIdOf(lastCall.args)))
        => lastResult.success = FALSE

-----------------------------------------------------------------------------
(* The tool handlers within a conversation: C11 - C15 *)

IsOutput(item) == item.type = "function_call_output"

\* the function_call_output items sent so far, in the order they were sent
Outputs == SelectSeq(outbox, IsOutput)

\* a step that dispatches a tool invocation
ToolStep == callCount' = callCount + 1

QueryOf(args) == IF "query" \in DOMAIN args THEN args.query ELSE <<>>

\* the result belongs to the invocation: it echoes the invocation's own
\* arguments and takes the branch its lookup decides
ResultFits(call, result, found) ==
    CASE call.name = "navigate_video" ->
             /\ result.success = TRUE
             /\ result.timestamp = timestampOf(call.args)
      [] call.name = "search_video" ->
             IF found # <<>>
             THEN result.success = TRUE /\ result.video_id = found[1].video.id
             ELSE result.success = FALSE /\ result.query = QueryOf(call.args)
      [] call.name = "get_video_content" ->
             IF InCatalog(IF videoIdOf(call.args) # ""
                          THEN videoIdOf(call.args) ELSE currentVideoId)
             THEN /\ result.success = TRUE
                  /\ result.timestamp = timestampOf(call.args)
             ELSE result.success = FALSE

\* C11: while the data channel is open every tool invocation is answered, in
\* the step that handles it and on every branch, by exactly one
\* function_call_output carrying the call_id and the result of that
\* invocation; the outputs sent are those of invocations 1, 2, ... in order.
C11_OneOutputPerCall ==
    /\ [](/\ Len(Outputs) = callCount
          /\ \A k \in 1..Len(Outputs) : Outputs[k].call_id = k)
    /\ [][ToolStep =>
            /\ dataChannel = "open"
            /\ outbox' = Append(outbox, [type |-> "function_call_output",
                                         call_id |-> lastCall'.call_id])
            /\ ResultFits(lastCall', lastResult', results')]_vars

\* three invocations answered around the greeting, the last one a search
\* without a match
C11_Witness ==
    /\ callCount = 3
    /\ Len(Outputs) = 3
    /\ Len(outbox) = 4
    /\ lastCall.name = "search_video"
    /\ lastCall.call_id = 3
    /\ lastResult.success = FALSE

\* C12 (as claimed): after a search_video request whose search returned
\* results, the reply names results[0], a video of maximal score and the first
\* such of the catalog, and currentVideoId is that video; after one whose
\* search returned nothing the reply is a failure.
C12_BestMatchShown ==
    lastCall.name = "search_video" =>
        IF results # <<>>
        THEN /\ lastResult.success = TRUE
             /\ lastResult.video_id = results[1].video.id
             /\ lastResult.score = results[1].score
             /\ \A k \in 1..Len(results) :
                    /\ results[k].score <= results[1].score
                    /\ (k > 1 /\ results[k].score = results[1].score) =>
                           CatalogIndex(results[1].video)
                               < CatalogIndex(results[k].video)
             /\ currentVideoId = lastResult.video_id
        ELSE lastResult.success = FALSE

\* C13 (as claimed): once the video has loaded after a navigate_video or
\* get_video_content request that sought or showed a video, the position is
\* the timestamp of that request.
C13_LastSeekWins ==
    (/\ lastCall.name \in {"navigate_video", "get_video_content"}
     /\ lastCommand \in {"seek", "show"}
     /\ readyState = "loaded")
        => currentTime = timestampOf(lastCall.args)

\* C14: the catalog is what the page was loaded with, whatever invocations
\* were handled.
C14_CatalogUnchanged == VIDEOS_DATA = SessionCatalog

\* a search with results was handled, then a request for content took the
\* nearest-segment fallback on the first video
C14_Witness ==
    /\ callCount >= 2
    /\ results # <<>>
    /\ lastCall.name = "get_video_content"
    /\ lastResult.success = TRUE
    /\ lastResult.video_id = "video_001"
    /\ lastResult.timestamp = 1000
    /\ Len(VIDEOS_DATA[1].transcript) = 2
    /\ lastResult.segments = <<VIDEOS_DATA[1].transcript[2]>>

\* the ranking as the specification states it: the videos of positive score,
\* by descending score and then by catalog position, as (id, score)
ClaimRanking(catalog, query) ==
    IF Len(query) = 0 THEN <<>>
    ELSE LET Score(i) == ClaimScore(catalog[i], query)
             hits == {i \in 1..Len(catalog) : Score(i) > 0}
             Before(i, j) == Score(i) > Score(j)
                             \/ (Score(i) = Score(j) /\ i < j)
             Rank(i) == Cardinality({j \in hits : Before(j, i)}) + 1
         IN  [k \in 1..Cardinality(hits) |->
                LET i == CHOOSE j \in hits : Rank(j) = k
                IN  [id |-> catalog[i].id, score |-> Score(i)]]

IdsAndScores(found) ==
    [k \in 1..Len(found) |->
        [id |-> found[k].video.id, score |-> found[k].score]]

\* C15: whatever invocations were handled before it, a search_video request
\* gets the ranking of its query over the catalog the page was loaded with.
C15_HistoryIndependent ==
    lastCall.name = "search_video" =>
        IdsAndScores(results) = ClaimRanking(SessionCatalog, QueryOf(lastCall.args))

\* the same query searched a second time, after another video was shown
C15_Witness ==
    /\ lastCall.name = "search_video"
    /\ QueryOf(lastCall.args) = <<"n","e","w","t","o","n">>
    /\ callCount = 3
    /\ onLoad = <<0, 1000, 0>>
    /\ Len(results) = 1
    /\ results[1].video.id = "video_001"

-----------------------------------------------------------------------------
(* Query case and sparse videos: C16, C20 *)

\* C16 (as claimed): the query in upper case gets the same videos with the
\* same scores, in the same order, as the query in lower case.
C16_CaseInsensitive ==
    (Searched /\ "upper" \in DOMAIN lastResult) =>
        lastResult.upper = lastResult.lower

\* the video with every absent field given as the empty sequence or string
Filled(video) ==
    [id |-> video.id,
     title |-> IF "title" \in DOMAIN video THEN video.title ELSE <<>>,
     topics |-> IF "topics" \in DOMAIN video THEN video.topics ELSE <<>>,
     keywords |-> IF "keywords" \in DOMAIN video THEN video.keywords
                  ELSE <<>>]

Sparse(video) == {"title", "topics", "keywords"} \ DOMAIN video # {}

\* C20: over catalogs whose videos lack topics, keywords or title, search
\* returns a sequence of catalog videos, each with the score the
\* specification states for the video with its absent fields empty, and
\* exactly the videos for which that score is positive; with no such video
\* the result is the empty sequence.
C20_SparseAsEmpty ==
    (Searched /\ Len(TheQuery) > 0) =>
        /\ \A k \in 1..Len(results) :
               /\ \E i \in 1..Len(VIDEOS_DATA) :
                      VIDEOS_DATA[i] = results[k].video
               /\ results[k].score
                      = ClaimScore(Filled(results[k].video), TheQuery)
        /\ \A i \in 1..Len(VIDEOS_DATA) :
               (\E k \in 1..Len(results) : results[k].video = VIDEOS_DATA[i])
                   <=> ClaimScore(Filled(VIDEOS_DATA[i]), TheQuery) > 0
        /\ (\A i \in 1..Len(VIDEOS_DATA) :
                ClaimScore(Filled(VIDEOS_DATA[i]), TheQuery) = 0)
               => results = <<>>

\* of two sparse videos the one without title and keywords is found by its
\* topics, the one without topics and keywords is not
C20_Witness ==
    /\ Searched
    /\ TheQuery = <<"S","S">>
    /\ Len(VIDEOS_DATA) = 2
    /\ \A i \in 1..2 : Sparse(VIDEOS_DATA[i])
    /\ VIDEOS_DATA[1].id = "video_001"
    /\ Len(results) = 1
    /\ results[1].video.id = "video_002"
    /\ results[1].score = 30

-----------------------------------------------------------------------------
(* The rendered text and the far timestamps: C17 - C19 *)

\* the line the specification states for a segment
ClaimLine(seg) ==
    <<"[">> \o formatTime(seg.start) \o <<"-">> \o formatTime(seg.end)
        \o <<"]", " ">> \o seg.text \o <<"\n">>

\* text is the lines of the segments from position k on, one after another
RECURSIVE IsLinesOf(_, _, _)
IsLinesOf(text, segments, k) ==
    IF k > Len(segments) THEN text = <<>>
    ELSE LET line == ClaimLine(segments[k])
         IN  /\ Len(text) >= Len(line)
             /\ SubSeq(text, 1, Len(line)) = line
             /\ IsLinesOf(SubSeq(text, Len(line) + 1, Len(text)),
                          segments, k + 1)

\* C17: the content of a result with segments is the lines of the returned
\* segments in their order, one line each; it has as many newlines as there
\* are segments.
C17_RenderedLines ==
    (Windowed /\ lastResult.segments # <<>>) =>
        /\ IsLinesOf(lastResult.content, lastResult.segments, 1)
        /\ Cardinality({i \in 1..Len(lastResult.content) :
                            lastResult.content[i] = "\n"})
               = Len(lastResult.segments)

\* two segments of different text returned, and their two lines
C17_Witness ==
    /\ Windowed
    /\ lastResult.timestamp = 15
    /\ lastResult.segments = ShortSegments
    /\ lastResult.content =
           <<"[","0",":","1","0","-","0",":","1","5","]"," ","a","\n",
             "[","0",":","1","5","-","0",":","2","0","]"," ","b","\n">>

DigitValue(d) == (CHOOSE i \in 1..10 : Digits[i] = d) - 1

IsDigits(text) ==
    \A i \in 1..Len(text) : \E k \in 1..10 : Digits[k] = text[i]

RECURSIVE NumberOf(_)
NumberOf(text) ==
    IF Len(text) = 0 THEN 0
    ELSE 10 * NumberOf(SubSeq(text, 1, Len(text) - 1))
         + DigitValue(text[Len(text)])

Formatted == lastCall.name = "formatTime"

\* C18: formatTime(s) is a decimal number without leading zero, a colon and
\* two digits; the two digits are a number of 0..59, and 60 times the first
\* number plus the second is s.
C18_FormatTime ==
    Formatted =>
        LET text  == lastResult.text
            colon == {i \in 1..Len(text) : text[i] = ":"}
        IN  /\ Cardinality(colon) = 1
            /\ LET c    == CHOOSE i \in colon : TRUE
                   mins == SubSeq(text, 1, c - 1)
                   secs == SubSeq(text, c + 1, Len(text))
               IN  /\ Len(mins) >= 1 /\ IsDigits(mins)
                   /\ (Len(mins) > 1 => mins[1] # "0")
                   /\ Len(secs) = 2 /\ IsDigits(secs)
                   /\ NumberOf(secs) \in 0..59
                   /\ 60 * NumberOf(mins) + NumberOf(secs)
                          = lastCall.args.seconds

\* an hour and five seconds: the minutes are not wrapped, the seconds padded
C18_Witness ==
    /\ Formatted
    /\ lastCall.args.seconds = 3605
    /\ lastResult.text = <<"6","0",":","0","5">>

\* the transcript is in order: every segment ends after it starts and no
\* later than the next one starts
InOrder(transcript) ==
    /\ \A i \in 1..Len(transcript) : transcript[i].start < transcript[i].end
    /\ \A i \in 1..(Len(transcript) - 1) :
           transcript[i].end <= transcript[i + 1].start

\* the result is the one segment nearest to the timestamp, the first such
NearestAlone ==
    \E m \in 1..Len(TheTranscript) :
        /\ \A j \in 1..Len(TheTranscript) :
               ClaimDist(TheTranscript[m], lastResult.timestamp)
                   <= ClaimDist(TheTranscript[j], lastResult.timestamp)
        /\ \A j \in 1..(m - 1) :
               ClaimDist(TheTranscript[m], lastResult.timestamp)
                   < ClaimDist(TheTranscript[j], lastResult.timestamp)
        /\ lastResult.segments = <<TheTranscript[m]>>

\* C19 (as claimed): for a transcript in order and a timestamp greater than
\* the end of its last segment the result is exactly the one segment nearest
\* to the timestamp.
C19_BeyondDuration ==
    (/\ Windowed
     /\ Len(TheTranscript) > 0
     /\ InOrder(TheTranscript)
     /\ lastResult.timestamp > TheTranscript[Len(TheTranscript)].end)
        => NearestAlone

\* C19 (amended): for a non-empty transcript and a timestamp more than 10
\* seconds greater than every segment boundary the result is exactly the one
\* segment nearest to the timestamp, the first such in transcript order.
C19_FarBeyondDuration ==
    (/\ Windowed
     /\ Len(TheTranscript) > 0
     /\ \A i \in 1..Len(TheTranscript) :
            /\ TheTranscript[i].start + 10 < lastResult.timestamp
            /\ TheTranscript[i].end + 10 < lastResult.timestamp)
        => NearestAlone

\* far beyond two segments, the first of which ends later than the second
C19_Witness ==
    /\ Windowed
    /\ lastResult.timestamp = 1000
    /\ Len(TheTranscript) = 2
    /\ TheTranscript[1].start = 0 /\ TheTranscript[1].end = 40
    /\ TheTranscript[2].start = 10 /\ TheTranscript[2].end = 20
    /\ lastResult.segments = <<TheTranscript[1]>>

-----------------------------------------------------------------------------
(* The ingestion run of generate_data.py *)

\* str.endswith
endsWith(w, suffix) ==
    Len(suffix) <= Len(w)
    /\ SubSeq(w, Len(w) - Len(suffix) + 1, Len(w)) = suffix

\* generate_data.py:82: obj.object_name.lower().endswith(".mp4")
isMp4(obj) == endsWith(toLowerCase(obj.object_name), <<".","m","p","4">>)

\* list.sort(key=size) is stable: x goes behind the last object that is not
\* larger
RECURSIVE insertBySize(_, _)
insertBySize(sorted, x) ==
    IF Len(sorted) = 0 THEN <<x>>
    ELSE LET y == sorted[Len(sorted)]
         IN  IF y.size > x.size
             THEN insertBySize(SubSeq(sorted, 1, Len(sorted) - 1), x) \o <<y>>
             ELSE sorted \o <<x>>

RECURSIVE sortBySize(_)
sortBySize(list) ==
    IF Len(list) = 0 THEN <<>>
    ELSE insertBySize(sortBySize(SubSeq(list, 1, Len(list) - 1)),
                      list[Len(list)])

\* generate_data.py:63-102
list_videos(objects, max_videos) ==
    LET videos == sortBySize(SelectSeq(objects, isMp4))
    IN  IF max_videos > 0 /\ max_videos < Len(videos)
        THEN SubSeq(videos, 1, max_videos)
        ELSE videos

\* the format specification 03d: at least three digits, zeros in front
RECURSIVE zeroFill3(_)
zeroFill3(digits) ==
    IF Len(digits) >= 3 THEN digits ELSE zeroFill3(<<"0">> \o digits)

\* generate_data.py:340
videoIdFor(i) ==
    <<"v","i","d","e","o","_">> \o zeroFill3(toString(i))

\* the index counting the videos processed with success
enumerate1_Processed(position, processed) == Len(processed) + 1

\* generate_data.py:480: enumerate(video_list, 1) numbers the listing from 1
enumerate1(position, processed) == position + 1

\* generate_data.py:327-390: None when the download or the transcription
\* gives nothing, else the video's record
process_video(video_info, i, outcome) ==
    IF outcome \in {"download_failed", "transcription_failed"} THEN <<>>
    ELSE << [id |-> videoIdFor(i),
             filename |-> video_info.object_name] >>

ObjectNames == { <<"a",".","m","p","4">>, <<"b",".","M","P","4">>,
                 <<"c",".","m","p","4">>, <<"d",".","t","x","t">> }

Objects == [object_name : ObjectNames, size : 1..MaxSize]

\* the objects of the bucket in the order list_objects yields them
Buckets ==
    {b \in SeqsUpTo(Objects, MaxObjects) :
        \A i, j \in 1..Len(b) :
            i # j => b[i].object_name # b[j].object_name}

\* MAX_VIDEOS or the number typed in
Limits == {0, 1, 2}

\* download_video returns '', transcribe_video returns None, a later step
\* raises, or the video is processed
Outcomes == {"ok", "download_failed", "transcription_failed", "raised"}

\* generate_data.py:418-472: main up to its loop
InitIngest ==
    /\ VIDEOS_DATA = <<>>
    /\ PageIdle
    /\ video_list \in {list_videos(b, m) : b \in Buckets, m \in Limits}
    /\ video_index = 0
    /\ processed_videos = <<>>
    /\ outcomes = <<>>
    /\ videos_json = Null
    /\ ingestPc = IF video_list = <<>> THEN "done" ELSE "loop"
    /\ loaded = NotLoaded

\* generate_data.py:480-488: one turn of the loop
ProcessVideo ==
    \E outcome \in Outcomes \ {"raised"} :
        /\ ingestPc = "loop"
        /\ video_index < Len(video_list)
        /\ LET i == enumerate1(video_index, processed_videos)
               video_data == process_video(video_list[video_index + 1], i,
                                           outcome)
           IN  processed_videos' = processed_videos \o video_data
        /\ video_index' = video_index + 1
        /\ outcomes' = Append(outcomes, outcome)
        /\ UNCHANGED <<VIDEOS_DATA, player, session, calls, video_list,
                       videos_json, ingestPc, loaded>>

\* an exception leaves process_video and main: nothing is written
ProcessRaises ==
    /\ ingestPc = "loop"
    /\ video_index < Len(video_list)
    /\ video_index' = video_index + 1
    /\ outcomes' = Append(outcomes, "raised")
    /\ ingestPc' = "crashed"
    /\ UNCHANGED <<VIDEOS_DATA, player, session, calls, video_list,
                   processed_videos, videos_json, loaded>>

\* generate_data.py:502-514 and 397-415
SaveResults ==
    /\ ingestPc = "loop"
    /\ video_index = Len(video_list)
    /\ videos_json' = IF processed_videos # <<>> THEN processed_videos
                      ELSE videos_json
    /\ ingestPc' = "done"
    /\ UNCHANGED <<VIDEOS_DATA, player, session, calls, video_list,
                   video_index, processed_videos, outcomes, loaded>>

NextIngest == ProcessVideo \/ ProcessRaises \/ SaveResults

SpecIngest == InitIngest /\ [][NextIngest]_vars

\* the positions of the listing whose video was processed
Succeeded == {k \in 1..Len(outcomes) : outcomes[k] = "ok"}

\* the id the specification gives the video at position k of the listing
ClaimId(k) ==
    <<"v","i","d","e","o","_">>
        \o (IF k < 10 THEN <<"0","0">> ELSE IF k < 100 THEN <<"0">> ELSE <<>>)
        \o toString(k)

\* C21: the listing is sorted by size; the catalog written holds, in the
\* order of the listing, exactly the videos processed with success, each with
\* the id of its 1-based position in the listing, so that the ids are pairwise
\* distinct and the position of a failed video names no video.
C21_SequentialIds ==
    /\ \A i, j \in 1..Len(video_list) :
           i < j => video_list[i].size <= video_list[j].size
    /\ videos_json # Null =>
           /\ Len(videos_json) = Cardinality(Succeeded)
           /\ \A n \in 1..Len(videos_json) :
                  LET k == Kth(Succeeded, n)
                  IN  /\ videos_json[n].id = ClaimId(k)
                      /\ videos_json[n].filename = video_list[k].object_name
           /\ \A n, m \in 1..Len(videos_json) :
                  n # m => videos_json[n].id # videos_json[m].id
           /\ \A k \in 1..Len(outcomes) :
                  outcomes[k] # "ok" =>
                      \A n \in 1..Len(videos_json) :
                          videos_json[n].id # ClaimId(k)

\* of three listed videos the second failed: the catalog holds video_001 and
\* video_003
C21_Witness ==
    /\ ingestPc = "done"
    /\ outcomes = <<"ok", "transcription_failed", "ok">>
    /\ videos_json # Null
    /\ Len(videos_json) = 2
    /\ videos_json[1].id = <<"v","i","d","e","o","_","0","0","1">>
    /\ videos_json[2].id = <<"v","i","d","e","o","_","0","0","3">>
    /\ video_list[1].size < video_list[3].size

-----------------------------------------------------------------------------
(* load_videos_data, app.py:20-39 *)

\* {"videos": [], "metadata": {}}
EmptyCatalog == [videos |-> <<>>, metadata |-> <<>>]

Returned(value) == [status |-> "returned", value |-> value]

Raised == [status |-> "raised"]

\* app.py:23-28: the try around the request; << >> when the except clause
\* has caught a failure and warned
fetchFromApi(fetch) ==
    IF fetch.outcome = "ok" THEN <<Returned(fetch.json)>> ELSE <<>>

\* the file read without the try around it
readLocalFile_NoCatch(file) ==
    IF file.outcome = "missing" THEN Returned(EmptyCatalog)
    ELSE IF file.outcome = "ok" THEN Returned(file.json)
    ELSE Raised

\* app.py:31-39
readLocalFile(file) ==
    IF file.outcome = "missing" THEN Returned(EmptyCatalog)
    ELSE IF file.outcome = "ok" THEN Returned(file.json)
    ELSE Returned(EmptyCatalog)

\* app.py:20-39
load_videos_data(url, fetch, file) ==
    IF url # ""
    THEN LET response == fetchFromApi(fetch)
         IN  IF response # <<>> THEN response[1] ELSE readLocalFile(file)
    ELSE readLocalFile(file)

\* a JSON document of n videos that names where it is kept
Document(source, n) ==
    [videos |-> [i \in 1..n |-> [id |-> i]],
     metadata |-> [total_videos |-> n, source |-> source]]

\* VIDEO_DATA_API_URL: not set, or set
ApiUrls == {"", "http://api"}

\* the request times out, the status is an error, the body is not JSON, or
\* the body is a JSON document
Fetches ==
    [outcome : {"timeout", "http_error", "invalid_json"}]
        \cup {[outcome |-> "ok", json |-> Document("api", n)] :
                 n \in 0..MaxPayload}

\* data/videos.json is missing, cannot be opened, is not JSON, or holds a
\* JSON document
Files ==
    [outcome : {"missing", "unreadable", "invalid_json"}]
        \cup {[outcome |-> "ok", json |-> Document("file", n)] :
                 n \in 0..MaxPayload}

InitLoad == VIDEOS_DATA = <<>> /\ InitPage

LoadStep ==
    \E url \in ApiUrls, fetch \in Fetches, file \in Files :
        /\ loaded = NotLoaded
        /\ loaded' = [url |-> url, fetch |-> fetch, file |-> file,
                      result |-> load_videos_data(url, fetch, file)]
        /\ UNCHANGED <<VIDEOS_DATA, player, session, calls, video_list,
                       video_index, processed_videos, outcomes, videos_json,
                       ingestPc>>

SpecLoad == InitLoad /\ [][LoadStep]_vars

\* C22: load_videos_data returns on every path: the document of the API when
\* a URL is set and the request succeeds, else the document of the local file
\* when it can be read, else the empty catalog.
C22_LoadNeverFails ==
    loaded # NotLoaded =>
        /\ loaded.result.status = "returned"
        /\ loaded.result.value =
               IF loaded.url # "" /\ loaded.fetch.outcome = "ok"
               THEN loaded.fetch.json
               ELSE IF loaded.file.outcome = "ok" THEN loaded.file.json
               ELSE [videos |-> <<>>, metadata |-> <<>>]

\* a URL is set, the request fails and the local file cannot be parsed
C22_Witness ==
    /\ loaded # NotLoaded
    /\ loaded.url = "http://api"
    /\ loaded.fetch.outcome = "http_error"
    /\ loaded.file.outcome = "invalid_json"
    /\ loaded.result = [status |-> "returned",
                        value |-> [videos |-> <<>>, metadata |-> <<>>]]

-----------------------------------------------------------------------------
(* The window as an intersection, short tokens, the current video: C23 - C25 *)

WellFormed(seg) == seg.start <= seg.end

\* the positions of the well-formed segments that have a point in common
\* with the window of the timestamp answered
Intersecting ==
    LET t == lastResult.timestamp
        startRange == IF t > 10 THEN t - 10 ELSE 0
        endRange == t + 10
    IN  {i \in 1..Len(TheTranscript) :
            /\ WellFormed(TheTranscript[i])
            /\ TheTranscript[i].start <= endRange
            /\ TheTranscript[i].end >= startRange}

\* C23: every well-formed segment that intersects the window is returned;
\* for a transcript of well-formed segments the result is exactly the
\* intersecting segments in transcript order when there is one, and at most
\* one segment, which does not intersect, when there is none.
C23_WindowIsIntersection ==
    Windowed =>
        /\ \A i \in Intersecting :
               \E k \in 1..Len(lastResult.segments) :
                   lastResult.segments[k] = TheTranscript[i]
        /\ (\A i \in 1..Len(TheTranscript) : WellFormed(TheTranscript[i])) =>
               IF Intersecting # {}
               THEN /\ Len(lastResult.segments) = Cardinality(Intersecting)
                    /\ \A k \in 1..Len(lastResult.segments) :
                           lastResult.segments[k]
                               = TheTranscript[Kth(Intersecting, k)]
               ELSE Len(lastResult.segments) <= 1

\* the first segment ends exactly where the window starts and is returned,
\* the second starts beyond the window and is not
C23_Witness ==
    /\ Windowed
    /\ lastResult.timestamp = 20
    /\ Len(TheTranscript) = 2
    /\ TheTranscript[1].start = 0 /\ TheTranscript[1].end = 10
    /\ TheTranscript[2].start = 40 /\ TheTranscript[2].end = 40
    /\ lastResult.segments = <<TheTranscript[1]>>

\* the lower-cased text of a video that the phrase is looked up in
ClaimAllText(video) ==
    toLowerCase(join(OrDefault(video, "topics", <<>>))) \o <<" ">>
        \o toLowerCase(join(OrDefault(video, "keywords", <<>>))) \o <<" ">>
        \o toLowerCase(OrDefault(video, "title", <<>>))

\* no token of the query has more than one character
OnlyShortTokens(query) ==
    \A r \in Runs(query) : r[2] = r[1]

\* C24: for a non-empty query without a token longer than one character
\* every result has score 20 and the results are exactly the videos whose
\* text contains the lower-cased query.
C24_ShortTokensPhraseOnly ==
    (Searched /\ Len(TheQuery) > 0 /\ OnlyShortTokens(TheQuery)) =>
        /\ \A k \in 1..Len(results) : results[k].score = 20
        /\ \A i \in 1..Len(VIDEOS_DATA) :
               (\E k \in 1..Len(results) : results[k].video = VIDEOS_DATA[i])
                   <=> includes(ClaimAllText(VIDEOS_DATA[i]),
                                toLowerCase(TheQuery))

\* two tokens of one character: of two videos only the one with the topic
\* 'a b' is returned
C24_Witness ==
    /\ Searched
    /\ TheQuery = <<"a"," ","b">>
    /\ Len(VIDEOS_DATA) = 2
    /\ VIDEOS_DATA[1].id = "video_002"
    /\ Len(results) = 1
    /\ results[1].video.id = "video_003"
    /\ results[1].score = 20

\* a get_video_content request is handled
ContentStep ==
    callCount' = callCount + 1 /\ lastCall'.name = "get_video_content"

\* the videos of the catalog with the id
WithId(id) == {i \in 1..Len(VIDEOS_DATA) : VIDEOS_DATA[i].id = id}

\* the result is a success for the video: it names it and quotes segments of
\* its transcript only
AnsweredFor(result, id) ==
    /\ result.success = TRUE
    /\ result.video_id = id
    /\ \A k \in 1..Len(result.segments) :
           \E i \in WithId(id) :
               \E n \in 1..Len(VIDEOS_DATA[i].transcript) :
                   result.segments[k] = VIDEOS_DATA[i].transcript[n]

\* C25: currentVideoId is the video the player loaded last, set by
\* search_video and navigate_video only; a get_video_content request without
\* a video_id is answered for that video, or with 'not found' when none was
\* loaded; a request naming another video of the catalog is answered for the
\* named one; get_video_content never changes currentVideoId.
C25_CurrentVideoContent ==
    /\ [](IF currentVideoId = Null THEN videoSrc = ""
          ELSE \E i \in WithId(currentVideoId) :
                   videoSrc = VIDEOS_DATA[i].url)
    /\ [][/\ (currentVideoId' # currentVideoId \/ videoSrc' # videoSrc) =>
                 /\ callCount' = callCount + 1
                 /\ lastCall'.name \in {"search_video", "navigate_video"}
          /\ ContentStep =>
                 /\ currentVideoId' = currentVideoId
                 /\ videoIdOf(lastCall'.args) = "" =>
                        IF currentVideoId = Null
                        THEN lastResult' = [success |-> FALSE,
                                 message |-> "Video tidak ditemukan"]
                        ELSE AnsweredFor(lastResult', currentVideoId)
                 /\ (/\ videoIdOf(lastCall'.args) # ""
                     /\ videoIdOf(lastCall'.args) # currentVideoId
                     /\ WithId(videoIdOf(lastCall'.args)) # {}) =>
                        AnsweredFor(lastResult', videoIdOf(lastCall'.args))
         ]_vars

\* the first video is current when the content at second 45 is requested
\* without a video_id: the second segment of its transcript is returned
C25_Witness ==
    /\ lastCall.name = "get_video_content"
    /\ ~HasField(lastCall.args, "video_id")
    /\ currentVideoId = "video_001"
    /\ lastResult.success = TRUE
    /\ lastResult.video_id = "video_001"
    /\ lastResult.segments = <<[start |-> 40, end |-> 50, text |-> <<"b">>]>>

-----------------------------------------------------------------------------
(* The end of a conversation and a start that fails: C26, C27 *)

\* Stop is clicked: the one step that disables the Stop button while no
\* start is under way
StopStep == ~stopDisabled /\ stopDisabled' /\ pc = "idle"

\* C26: the step of stopConversation leaves isConnected false, dataChannel,
\* peerConnection, mediaStream and audioElement null, Start enabled and Stop
\* disabled; and no step taken while no data channel is open sends anything,
\* be it the result of a tool call or the greeting of the timer.
C26_StoppedIsSilent ==
    /\ [][StopStep =>
            /\ isConnected' = FALSE
            /\ dataChannel' = Null
            /\ peerConnection' = Null
            /\ mediaStream' = Null
            /\ audioElement' = Null
            /\ startDisabled' = FALSE
            /\ stopDisabled' = TRUE]_vars
    /\ [][dataChannel # "open" => outbox' = outbox]_vars

\* the channel opened and Stop was clicked before the greeting was due; then
\* a tool call was handled and the timer ran, and nothing was sent
C26_Witness ==
    /\ starts = 1
    /\ dataChannel = Null
    /\ peerConnection = Null
    /\ ~isConnected
    /\ ~startDisabled /\ stopDisabled
    /\ callCount = 1
    /\ lastResult # NoResult
    /\ greetingTimers = 0
    /\ outbox = <<>>

\* a step of startConversation throws and its catch block runs
FailStep == pc # "idle" /\ pc' = "idle" /\ ~startDisabled'

\* C27 (as claimed): a failed start leaves Start enabled, Stop disabled and
\* no peer connection, data channel or microphone stream behind, and no start
\* ever replaces a peer connection or a stream that is still live.
C27_FailureReleasesAll ==
    /\ [](leaked = 0)
    /\ [][FailStep =>
            /\ startDisabled' = FALSE
            /\ stopDisabled' = TRUE
            /\ peerConnection' = Null
            /\ dataChannel' = Null
            /\ mediaStream' = Null]_vars

=============================================================================
